---- MODULE Spec2Model ----
(***************************************************************************)
(* Sidekick EPICS firmware sketches: the trigger-driven relative-delay     *)
(* scheduling core of the five Arduino sketches                            *)
(*   PG   PulseGeneratorSCPI  (internal repetition-rate trigger, 8 chans)  *)
(*   LED  LEDsSCPI            (external trigger, 6 LEDs)                   *)
(*   SHUT ShutterSCPI         (external trigger, one servo shutter)        *)
(*   PHS  PhotoSCPI streaming (external trigger, continuous accumulate)    *)
(*   PHT  PhotoSCPI timed     (external trigger, 200 us sub-sampling)      *)
(* Each sketch is a run loop  timer1.tick(); [timer2.tick();]              *)
(* ProcessInput(); [sample]  preempted (all but PG) by the trigger ISR.    *)
(*                                                                         *)
(* Time is in microseconds and every program constant keeps its value.     *)
(* The only scaling is the width of unsigned long: ULongBits bits instead  *)
(* of 32, so that unsigned arithmetic wraps at ULongMod.  int keeps the    *)
(* 16 bits it has on the AVR boards the sketches name.                     *)
(***************************************************************************)
EXTENDS Integers, Naturals, Sequences, FiniteSets, TLC

VARIABLES
    variant,      \* which sketch runs on this device
    clock,        \* free-running microsecond counter (micros() and millis())
    pc, idx,      \* position of the run loop; slot reached by timer1.tick()
    timer1,       \* Timer<N, micros> timer1 : slot -> task
    timer2,       \* Timer<1, millis> timer2 (PG)
    t0,           \* unsigned long t0
    out,          \* outputs: pin -> level written
    delays,       \* int delays[NCHAN]                (PG)
    repRate,      \* double repRate                   (PG)
    durations,    \* unsigned long durations[NLED]    (LED)
    brights,      \* int brights[NLED]                (LED)
    duration1,    \* unsigned long duration1          (SHUT, PHS, PHT)
    trigcnt, trigcnt_daq, trigcnt_dat,   \* trigger counts (PHS)
    DAQIsReady,   \* bool DAQIsReady                  (PHS)
    duration_daq, \* duration of the acquisition in flight (PHS)
    sum, ncounts, sum_daq, ncounts_daq,  \* accumulator (PHS; sum also PHT)
    ADCcontinue,  \* bool ADCcontinue                 (PHT)
    integration,  \* double integration               (PHS, PHT)
    debugmode,    \* bool debugmode                   (PHS)
    dt,           \* double dt                        (PHS)
    datMsg,       \* String datMsg                    (PHS)
    reply,        \* lines printed on Serial by the latest printing step
    wr,           \* multi-byte store of the run loop that is half done
    \* ---- history variables (observers, never read by the program) ----
    ntrig,        \* number of trigger arrivals (trigStart calls, ISR entries)
    acc,          \* number of accepted triggers = id of the current cycle
    lastTrig,     \* outcome of the latest trigger arrival
    owner,        \* slot -> cycle whose trigger (or callback) enqueued it
    highs, lows,  \* output -> number of on / off callbacks in the cycle
    dsnap,        \* output -> setting read at schedule-build time
    riseAt,       \* output -> micros() read inside the on callback
    lastSet,      \* channel -> value of the latest accepted DELay set
    rateCmd,      \* the latest REPrate command, until the next trigStart
    cnt,          \* the latest TRIGCount set and the edges counted since
    ncmd,         \* number of commands processed
    nlate,        \* number of late arrivals of the run loop
    nsamp,        \* number of DAQRead calls of the acquisition (PHT)
    bsnap,        \* output -> brightness held at schedule-build time (LED)
    daq,          \* the acquisition callbacks run so far (PHS, PHT)
    enq           \* the scheduling steps so far; slot -> step that filled it

vars == << variant, clock, pc, idx, timer1, timer2, t0, out, delays, repRate,
           durations, brights, duration1, trigcnt, trigcnt_daq, trigcnt_dat,
           DAQIsReady, duration_daq, sum, ncounts, sum_daq, ncounts_daq,
           ADCcontinue, integration, debugmode, dt, datMsg, reply, wr,
           ntrig, acc, lastTrig, owner, highs, lows, dsnap, riseAt, lastSet,
           rateCmd, cnt, ncmd, nlate, nsamp, bsnap, daq, enq >>

(***************************************************************************)
(* Widths, program constants, bounds                                       *)
(***************************************************************************)
ULongBits == 20                  \* modelled width of unsigned long
IntBits   == 16                  \* width of int
ULongMod  == 2^ULongBits
IntMod    == 2^IntBits
HalfMod   == 2^(ULongBits \div 2)  \* the unit in which a long is stored
ClockMod  == 1000 * ULongMod     \* millis() wraps when clock does

NCHAN     == 8                   \* PulseGeneratorSCPI
TRIGOUT   == 3
pulseTime == 3000
LeadIn    == 1000
CapPG     == 10
CapTimer2 == 1
NLED      == 6                   \* LEDsSCPI
CapLED    == 16
SERVOPIN  == 3                   \* ShutterSCPI
CapShutter == 2
CapPhoto  == 3                   \* PhotoSCPI, both
dtTimed   == 200                 \* unsigned long dt of the timed PhotoSCPI

MaxTrig   == 2                   \* trigger arrivals explored
MaxCmds   == 2                   \* commands explored
MaxLate   == 1                   \* ticks that come Late, explored
MaxSamples == 2                  \* samples followed per acquisition
Late      == 3000                \* how late after a deadline a tick may come

chanPins == [i \in 0..(NCHAN-1) |-> i + 4]
PinsPG   == {TRIGOUT} \cup {chanPins[i] : i \in 0..(NCHAN-1)}
LEDPins  == [i \in 0..(NLED-1) |-> << 3, 5, 6, 9, 10, 11 >>[i + 1]]
PinsLED  == {LEDPins[i] : i \in 0..(NLED-1)}
HIGH == 1
LOW  == 0
NULL == "NULL"
Variants == {"PG", "LED", "SHUT", "PHS", "PHT"}

(***************************************************************************)
(* Integer conversions                                                     *)
(***************************************************************************)
\* unsigned long arithmetic: results are reduced modulo ULongMod
UAdd(a, b) == (a + b + 2 * ULongMod) % ULongMod
USub(a, b) == (a - b + 2 * ULongMod) % ULongMod
\* what an assignment of a long to an int keeps: the low IntBits bits, signed
ToInt(v) == LET r == ((v % IntMod) + IntMod) % IntMod
            IN  IF r >= IntMod \div 2 THEN r - IntMod ELSE r
\* strtoul(text, NULL, 0) of a decimal text: saturates at ULONG_MAX
StrToUL(v) == IF v >= ULongMod THEN ULongMod - 1 ELSE IF v < 0 THEN USub(0, 0 - v) ELSE v
\* constrain(x, lo, hi) of Arduino.h
Constrain(x, lo, hi) == IF x < lo THEN lo ELSE IF x > hi THEN hi ELSE x
\* the two units in which the run loop stores an unsigned long
Lo(v) == v % HalfMod
Hi(v) == v \div HalfMod
Join(h, l) == h * HalfMod + l
Micros(c) == c % ULongMod
Millis(c) == (c \div 1000) % ULongMod
MinOf(S) == CHOOSE x \in S : \A y \in S : x <= y

(***************************************************************************)
(* arduino-timer (contrem), the Timer<N, time_func, T> template the        *)
(* sketches instantiate.  A timer is an array of N task slots; a slot is   *)
(* free when its handler is NULL.                                          *)
(***************************************************************************)
NoTask == [handler |-> NULL, opaque |-> 0, start |-> 0, expires |-> 0,
           repeat |-> FALSE]
EmptyTimer(cap) == [s \in 0..(cap-1) |-> NoTask]
\* size(): number of slots whose handler is set
Size(tm) == Cardinality({s \in DOMAIN tm : tm[s].handler # NULL})
\* next_task_slot(): the first free slot, -1 when the timer is full
NextTaskSlot(tm) ==
    IF \E s \in DOMAIN tm : tm[s].handler = NULL
    THEN MinOf({s \in DOMAIN tm : tm[s].handler = NULL}) ELSE -1
\* add_task(): fills the first free slot; a full timer drops the task
AddTask(tm, start, expires, h, opaque, repeat) ==
    LET s == NextTaskSlot(tm)
    IN  IF s = -1 THEN tm
        ELSE [tm EXCEPT ![s] = [handler |-> h, opaque |-> opaque,
                                start |-> start, expires |-> expires,
                                repeat |-> repeat]]
\* at(time, h, opaque): expires after time - now, an unsigned difference
At(tm, now, time, h, opaque) ==
    AddTask(tm, now, USub(time, now), h, opaque, FALSE)
\* in(delay, h, opaque)
In(tm, now, delay, h, opaque) == AddTask(tm, now, delay, h, opaque, FALSE)
\* every(interval, h, opaque): repeat = interval, rearmed while it is nonzero
Every(tm, now, interval, h, opaque) ==
    AddTask(tm, now, interval, h, opaque, interval # 0)
\* cancel(): removes every task
Cancel(tm) == [s \in DOMAIN tm |-> NoTask]
\* fault: the deadline compared as an absolute time, a clock below start
\* taken for expiry
DueAbsolute(task, t) ==
    task.handler # NULL /\ (t >= task.start + task.expires \/ t < task.start)
\* tick(): a task is due when  time_func() - start >= expires  (unsigned)
Due(task, t) == task.handler # NULL /\ USub(t, task.start) >= task.expires
\* tick(): the first due slot at or after slot from, the array size if none
NextDueSlot(tm, from, t) ==
    IF \E s \in DOMAIN tm : s >= from /\ Due(tm[s], t)
    THEN MinOf({s \in DOMAIN tm : s >= from /\ Due(tm[s], t)})
    ELSE Cardinality(DOMAIN tm)
\* time a task still has to wait when the clock reads t
Remaining(task, t) ==
    IF task.handler = NULL THEN ClockMod
    ELSE IF Due(task, t) THEN 0 ELSE task.expires - USub(t, task.start)
\* the tasks of a timer that run handler h
Pending(tm, h) == {s \in DOMAIN tm : tm[s].handler = h}

(***************************************************************************)
(* Run loop positions                                                      *)
(*   tick1  timer1.tick() about to visit slot idx                          *)
(*   rm1    the callback of slot idx has returned; remove(task) pending    *)
(*   rm2    remove() has cleared the handler of slot idx, not yet the rest *)
(*   tick2  timer2.tick()                          (PG)                    *)
(*   serial my_instrument.ProcessInput()                                   *)
(*   wr2    a set command has stored one half of an unsigned long          *)
(*   sample sum = sum + analogRead(); ncounts++    (PHS)                   *)
(***************************************************************************)
\* fault: every timer one slot smaller
CapacityTight(v) == CASE v = "PG" -> CapPG - 1 [] v = "LED" -> CapLED - 1
                      [] v = "SHUT" -> CapShutter - 1 [] OTHER -> CapPhoto - 1
Capacity(v) == CASE v = "PG" -> CapPG [] v = "LED" -> CapLED
                 [] v = "SHUT" -> CapShutter [] OTHER -> CapPhoto
Pins(v) == CASE v = "PG" -> PinsPG [] v = "LED" -> PinsLED
             [] v = "SHUT" -> {SERVOPIN} [] OTHER -> {}
AfterTick(v)   == IF v = "PG" THEN "tick2" ELSE "serial"
AfterSerial(v) == IF v = "PHS" THEN "sample" ELSE "tick1"

\* slots filled between tm and tmNew are owned by cycle c
Owned(tm, tmNew, c) ==
    [s \in DOMAIN tm |-> IF tm[s].handler = NULL /\ tmNew[s].handler # NULL
                         THEN c ELSE owner[s]]
\* add_task: the slots filled between tm and tmNew carry the number of the
\* scheduling step that filled them; within one step the slots are filled
\* in index order
Stamped(tm, tmNew) ==
    [n |-> enq.n + 1,
     at |-> [s \in DOMAIN tm |->
               IF tm[s].handler = NULL /\ tmNew[s].handler # NULL
               THEN enq.n + 1 ELSE enq.at[s]]]
ZeroOn(S) == [p \in S |-> 0]

(***************************************************************************)
(* PulseGeneratorSCPI.ino                                                  *)
(***************************************************************************)
\* trigStart: "Only start a new set of triggers if the old set is completed"
TrigIdle(tm) == Size(tm) < 1
\* trigStart: t0 = micros() + 1000 (the same statement in every myISR)
TimeZero(now) == UAdd(now, LeadIn)
\* trigStart: the loop  timer1.at(t0 + delays[i], TTLStart, chanPins[i])
RECURSIVE SchedChannels(_, _, _, _, _)
SchedChannels(tm, i, now, tz, dl) ==
    IF i = NCHAN THEN tm
    ELSE SchedChannels(At(tm, now, UAdd(tz, dl[i]), "TTLStart", chanPins[i]),
                       i + 1, now, tz, dl)
\* trigStart: the schedule of one accepted trigger
TrigStartTimer(tm, now, dl) ==
    SchedChannels(At(tm, now, TimeZero(now), "TTLStart", TRIGOUT),
                  0, now, TimeZero(now), dl)
\* fault: the fall placed at t0 + delay + width, whenever the rise ran
TTLStartAtDeadline(tm, now, chanPin) ==
    At(tm, now, UAdd(UAdd(t0, dsnap[chanPin]), pulseTime), "TTLStop", chanPin)
\* fault: the fall never scheduled
TTLStartNoStop(tm, now, chanPin) == tm
\* TTLStart: timer1.in(pulseTime, TTLStop, chanPin)
TTLStartTimer(tm, now, chanPin) == In(tm, now, pulseTime, "TTLStop", chanPin)
\* updateRepRate: int repTime = round(1000 / repRateHz), for a rate > 0
RepTime(rate) == (2 * 1000 + rate) \div (2 * rate)
\* fault: the period replaced in place, the running period kept
UpdateRepRateKeepPhase(tm2, nowMs, rate) ==
    [tm2 EXCEPT ![0].expires = RepTime(rate), ![0].repeat = TRUE]
\* updateRepRate: timer2.cancel(); timer2.every(repTime, trigStart)
UpdateRepRateTimer(tm2, nowMs, rate) ==
    Every(Cancel(tm2), nowMs, RepTime(rate), "trigStart", 0)
\* fault: the value stored into every channel
SetDelayTableAll(dl, suffix, val) ==
    IF suffix >= 0 /\ suffix < NCHAN THEN [i \in DOMAIN dl |-> ToInt(val)]
    ELSE dl
\* setDelay: delays[suffix] = first_parameter.toInt(), a long stored in an int
SetDelayTable(dl, suffix, val) ==
    IF suffix >= 0 /\ suffix < NCHAN THEN [dl EXCEPT ![suffix] = ToInt(val)]
    ELSE dl
\* getDelay: the line printed, nothing for an invalid suffix
GetDelayLine(dl, suffix, old) ==
    IF suffix >= 0 /\ suffix < NCHAN
    THEN << [cmd |-> "DELay?", ch |-> suffix, val |-> dl[suffix]] >> ELSE old

(***************************************************************************)
(* LEDsSCPI.ino                                                            *)
(***************************************************************************)
\* fault: the guard of myISR left out
IdleLEDAlways(tm) == TRUE
\* myISR: "Only start a new set of LED pulses if the old set is completed"
IdleLED(tm) == Size(tm) < 1
\* myISR: the loop  at(t0, LEDStart, i); at(t0 + durations[i], LEDStop, i)
RECURSIVE SchedLEDs(_, _, _, _, _)
SchedLEDs(tm, i, now, tz, du) ==
    IF i = NLED THEN tm
    ELSE SchedLEDs(At(At(tm, now, tz, "LEDStart", i),
                      now, UAdd(tz, du[i]), "LEDStop", i),
                   i + 1, now, tz, du)
\* setBrightness: brights[suffix] = constrain(value, 0, 255)
SetBrightnessTable(br, suffix, value) ==
    IF suffix >= 0 /\ suffix < NLED
    THEN [br EXCEPT ![suffix] = Constrain(ToInt(value), 0, 255)] ELSE br

(***************************************************************************)
(* ShutterSCPI.ino                                                         *)
(***************************************************************************)
\* fault: the guard of myISR off by one
IdleShutterOneLeft(tm) == Size(tm) < 2
\* myISR: "Only start a new shutter open/close sequence if the old one is
\* completed"
IdleShutter(tm) == Size(tm) < 1
\* myISR: at(t0, shutterOpen, 0); at(t0 + duration1, shutterClose, 0)
SchedShutter(tm, now, tz, du) ==
    At(At(tm, now, tz, "shutterOpen", 0), now, UAdd(tz, du), "shutterClose", 0)

(***************************************************************************)
(* PhotoSCPI.ino, streaming (continuous accumulate)                        *)
(***************************************************************************)
\* myISR: timer1.size() < 1 && DAQIsReady
IdlePhotoS(tm, ready) == Size(tm) < 1 /\ ready
\* fault: myISR schedules DAQStart alone
SchedPhotoNoStop(tm, now, tz, du) == At(tm, now, tz, "DAQStart", 0)
\* myISR: at(t0, DAQStart, 0); at(t0 + duration_daq, DAQStop, 0)
SchedPhoto(tm, now, tz, du) ==
    At(At(tm, now, tz, "DAQStart", 0), now, UAdd(tz, du), "DAQStop", 0)
\* fault: DAQStop divides by the sample count unguarded
IntegralNoGuard(s, n, du) == [sum |-> s, n |-> n, dur |-> du]
\* DAQStop: avg_daq, avg_volts and integration; the double is kept as the
\* triple that determines it, a zero sample count giving the average 0
Integral(s, n, du) ==
    IF n > 0 /\ s > 0 /\ du > 0 THEN [sum |-> s, n |-> n, dur |-> du]
    ELSE [sum |-> 0, n |-> 1, dur |-> 0]
\* DAQStop: datMsg = "STREAM " + "DAT: " + integration + ", TRIG: " + count
StreamMsg(int, trig) == [prefix |-> "STREAM DAT: ", dat |-> int, trig |-> trig]
\* DAQStop, debug mode: dt = duration_daq / ncounts_daq, an unsigned long
\* division whose result for a zero divisor is not defined
Quotients(a, b) == IF b = 0 THEN {0, ULongMod - 1} ELSE {a \div b}

(***************************************************************************)
(* PhotoSCPI.ino, timed sub-sampling                                       *)
(***************************************************************************)
\* myISR: "Only start a new acquisition if the old one is completed"
IdlePhotoT(tm) == Size(tm) < 1
\* DAQStart: timer1.every(dt, DAQRead)
DAQStartTimer(tm, now) == Every(tm, now, dtTimed, "DAQRead", 0)
\* DAQStop: integration = (sum * dt) * (areadmaxvolts / areadmax) * 1e-6
IntegralT(s) == [sumdt |-> (s * dtTimed) % ULongMod]

\* no store of the run loop is half done
NoStore == [var |-> "none", ch |-> 0, val |-> 0, rest |-> "none"]
\* the String datMsg before the first DAQStop: empty
EmptyMsg == [prefix |-> "", dat |-> Integral(0, 0, 0), trig |-> 0]

(***************************************************************************)
(* State after setup()                                                     *)
(***************************************************************************)
Loop0(v) ==
    /\ variant = v /\ clock = 0 /\ pc = "tick1" /\ idx = 0
    /\ timer1 = EmptyTimer(Capacity(v)) /\ t0 = 0
    /\ reply = << >> /\ wr = NoStore
History0(v) ==
    /\ ntrig = 0 /\ acc = 0 /\ lastTrig = "none"
    /\ owner = [s \in 0..(Capacity(v)-1) |-> 0]
    /\ enq = [n |-> 0, at |-> [s \in 0..(Capacity(v)-1) |-> 0]]
    /\ highs = ZeroOn(Pins(v)) /\ lows = ZeroOn(Pins(v))
    /\ dsnap = ZeroOn(Pins(v)) /\ riseAt = ZeroOn(Pins(v))
    /\ lastSet = [i \in 0..(NCHAN-1) |-> -1]
    /\ rateCmd = [at |-> -1, oldDue |-> 0]
    /\ cnt = [val |-> 0, a |-> 0, b |-> 0]
    /\ ncmd = 0 /\ nlate = 0 /\ nsamp = 0
    /\ bsnap = ZeroOn(Pins(v))
    /\ daq = [sumOf |-> 0, msgDat |-> 0, msgTrig |-> 0, last |-> "none",
              streams |-> 0, dur |-> 0, read |-> << >>,
              win |-> -1]
NoPG == delays = << >> /\ repRate = 0 /\ timer2 = EmptyTimer(CapTimer2)
NoLED == durations = << >> /\ brights = << >>
NoPhotoS ==
    /\ trigcnt = 0 /\ trigcnt_daq = 0 /\ trigcnt_dat = 0
    /\ DAQIsReady = FALSE /\ duration_daq = 0
    /\ ncounts = 0 /\ sum_daq = 0 /\ ncounts_daq = 0
    /\ debugmode = FALSE /\ dt = 0 /\ datMsg = EmptyMsg
NoPhoto == NoPhotoS /\ sum = 0 /\ ADCcontinue = FALSE /\ integration = 0

InitPG ==
    /\ Loop0("PG") /\ History0("PG") /\ NoLED /\ NoPhoto
    /\ timer2 = UpdateRepRateTimer(EmptyTimer(CapTimer2), 0, 1)
    /\ out = [p \in PinsPG |-> LOW]
    /\ delays = [i \in 0..(NCHAN-1) |-> 2000]
    /\ repRate = 1
    /\ duration1 = 0

InitLED ==
    /\ Loop0("LED") /\ History0("LED") /\ NoPG /\ NoPhoto
    /\ out = [p \in PinsLED |-> LOW]
    /\ durations = [i \in 0..(NLED-1) |->
                     << 200000, 500000, 150000, 400000, 350000, 100000 >>[i+1]]
    /\ brights = [i \in 0..(NLED-1) |-> 200]
    /\ duration1 = 0

\* the servo position is whatever the shutter was left at: not written yet
InitShutter ==
    /\ Loop0("SHUT") /\ History0("SHUT") /\ NoPG /\ NoLED /\ NoPhoto
    /\ out = [p \in {SERVOPIN} |-> -1]
    /\ duration1 = 500000

InitPhotoS ==
    /\ Loop0("PHS") /\ History0("PHS") /\ NoPG /\ NoLED
    /\ out = << >>
    /\ duration1 = 400000
    /\ trigcnt = 0 /\ trigcnt_daq = 0 /\ trigcnt_dat = 0
    /\ DAQIsReady = TRUE /\ duration_daq = 0
    /\ sum = 0 /\ ncounts = 0 /\ sum_daq = 0 /\ ncounts_daq = 0
    /\ ADCcontinue = FALSE /\ integration = Integral(0, 0, 0)
    /\ debugmode = FALSE /\ dt = 0 /\ datMsg = EmptyMsg

InitPhotoT ==
    /\ Loop0("PHT") /\ History0("PHT") /\ NoPG /\ NoLED /\ NoPhotoS
    /\ out = << >>
    /\ duration1 = 400000
    /\ sum = 0 /\ ADCcontinue = FALSE /\ integration = IntegralT(0)

Init == InitPG \/ InitLED \/ InitShutter \/ InitPhotoS \/ InitPhotoT

(***************************************************************************)
(* timer1.tick()                                                           *)
(***************************************************************************)
\* slots that are free or not yet due are passed over: the scan moves on to
\* the next due slot, or to the end of the array
TickSkip ==
    /\ pc = "tick1" /\ idx < Capacity(variant)
    /\ ~Due(timer1[idx], Micros(clock))
    /\ idx' = NextDueSlot(timer1, idx, Micros(clock))
    /\ UNCHANGED << variant, clock, pc, timer1, timer2, t0, out, delays,
                    repRate, durations, brights, duration1, trigcnt,
                    trigcnt_daq, trigcnt_dat, DAQIsReady, duration_daq, sum,
                    ncounts, sum_daq, ncounts_daq, ADCcontinue, integration,
                    debugmode, dt, datMsg, reply, wr, ntrig, acc, lastTrig,
                    owner, highs, lows, dsnap, riseAt, lastSet, rateCmd, cnt,
                    ncmd, nlate, nsamp, bsnap, daq, enq >>

\* the scan is over: the run loop goes on
TickEnd ==
    /\ pc = "tick1" /\ idx = Capacity(variant)
    /\ pc' = AfterTick(variant) /\ idx' = 0
    /\ UNCHANGED << variant, clock, timer1, timer2, t0, out, delays, repRate,
                    durations, brights, duration1, trigcnt, trigcnt_daq,
                    trigcnt_dat, DAQIsReady, duration_daq, sum, ncounts,
                    sum_daq, ncounts_daq, ADCcontinue, integration,
                    debugmode, dt, datMsg, reply, wr, ntrig, acc, lastTrig,
                    owner, highs, lows, dsnap, riseAt, lastSet, rateCmd, cnt,
                    ncmd, nlate, nsamp, bsnap, daq, enq >>

\* remove(task), first store: task->handler = NULL
Remove1 ==
    /\ pc = "rm1"
    /\ timer1' = [timer1 EXCEPT ![idx].handler = NULL]
    /\ pc' = "rm2"
    /\ UNCHANGED << variant, clock, idx, timer2, t0, out, delays, repRate,
                    durations, brights, duration1, trigcnt, trigcnt_daq,
                    trigcnt_dat, DAQIsReady, duration_daq, sum, ncounts,
                    sum_daq, ncounts_daq, ADCcontinue, integration,
                    debugmode, dt, datMsg, reply, wr, ntrig, acc, lastTrig,
                    owner, highs, lows, dsnap, riseAt, lastSet, rateCmd, cnt,
                    ncmd, nlate, nsamp, bsnap, daq, enq >>

\* remove(task), remaining stores: opaque, start, expires, repeat
Remove2 ==
    /\ pc = "rm2"
    /\ timer1' = [timer1 EXCEPT ![idx] = [handler |-> @.handler, opaque |-> 0,
                          start |-> 0, expires |-> 0, repeat |-> FALSE]]
    /\ pc' = "tick1" /\ idx' = idx + 1
    /\ UNCHANGED << variant, clock, timer2, t0, out, delays, repRate,
                    durations, brights, duration1, trigcnt, trigcnt_daq,
                    trigcnt_dat, DAQIsReady, duration_daq, sum, ncounts,
                    sum_daq, ncounts_daq, ADCcontinue, integration,
                    debugmode, dt, datMsg, reply, wr, ntrig, acc, lastTrig,
                    owner, highs, lows, dsnap, riseAt, lastSet, rateCmd, cnt,
                    ncmd, nlate, nsamp, bsnap, daq, enq >>

\* tick() has found slot idx due and calls its handler h
Calls(h) ==
    /\ pc = "tick1" /\ idx < Capacity(variant)
    /\ timer1[idx].handler = h /\ Due(timer1[idx], Micros(clock))

\* ---- PulseGeneratorSCPI callbacks ----
\* TTLStart(chanPin); it returns false, the task is removed
Fire_TTLStart ==
    /\ Calls("TTLStart")
    /\ LET chanPin == timer1[idx].opaque
           tm == TTLStartTimer(timer1, Micros(clock), chanPin)
       IN  /\ out' = [out EXCEPT ![chanPin] = HIGH]
           /\ timer1' = [tm EXCEPT ![idx].repeat = FALSE]
           /\ owner' = Owned(timer1, tm, owner[idx])
           /\ enq' = Stamped(timer1, tm)
           /\ highs' = [highs EXCEPT ![chanPin] = @ + 1]
           /\ riseAt' = [riseAt EXCEPT ![chanPin] = Micros(clock)]
    /\ pc' = "rm1"
    /\ UNCHANGED << variant, clock, idx, timer2, t0, delays, repRate,
                    durations, brights, duration1, trigcnt, trigcnt_daq,
                    trigcnt_dat, DAQIsReady, duration_daq, sum, ncounts,
                    sum_daq, ncounts_daq, ADCcontinue, integration,
                    debugmode, dt, datMsg, reply, wr, ntrig, acc, lastTrig,
                    lows, dsnap, lastSet, rateCmd, cnt, ncmd, nlate, nsamp,
                    bsnap, daq >>

\* TTLStop(chanPin); it returns false
Fire_TTLStop ==
    /\ Calls("TTLStop")
    /\ out' = [out EXCEPT ![timer1[idx].opaque] = LOW]
    /\ lows' = [lows EXCEPT ![timer1[idx].opaque] = @ + 1]
    /\ timer1' = [timer1 EXCEPT ![idx].repeat = FALSE]
    /\ pc' = "rm1"
    /\ UNCHANGED << variant, clock, idx, timer2, t0, delays, repRate,
                    durations, brights, duration1, trigcnt, trigcnt_daq,
                    trigcnt_dat, DAQIsReady, duration_daq, sum, ncounts,
                    sum_daq, ncounts_daq, ADCcontinue, integration,
                    debugmode, dt, datMsg, reply, wr, ntrig, acc, lastTrig,
                    owner, highs, dsnap, riseAt, lastSet, rateCmd, cnt, ncmd,
                    nlate, nsamp, bsnap, daq, enq >>

\* ---- LEDsSCPI callbacks ----
\* LEDStart(LEDid): analogWrite(LEDPins[LEDid], brights[LEDid])
Fire_LEDStart ==
    /\ Calls("LEDStart")
    /\ LET pin == LEDPins[timer1[idx].opaque]
       IN  /\ out' = [out EXCEPT ![pin] = brights[timer1[idx].opaque]]
           /\ highs' = [highs EXCEPT ![pin] = @ + 1]
           /\ riseAt' = [riseAt EXCEPT ![pin] = Micros(clock)]
    /\ timer1' = [timer1 EXCEPT ![idx].repeat = FALSE]
    /\ pc' = "rm1"
    /\ UNCHANGED << variant, clock, idx, timer2, t0, delays, repRate,
                    durations, brights, duration1, trigcnt, trigcnt_daq,
                    trigcnt_dat, DAQIsReady, duration_daq, sum, ncounts,
                    sum_daq, ncounts_daq, ADCcontinue, integration,
                    debugmode, dt, datMsg, reply, wr, ntrig, acc, lastTrig,
                    owner, lows, dsnap, lastSet, rateCmd, cnt, ncmd, nlate,
                    nsamp, bsnap, daq, enq >>

\* LEDStop(LEDid): digitalWrite(LEDPins[LEDid], LOW)
Fire_LEDStop ==
    /\ Calls("LEDStop")
    /\ LET pin == LEDPins[timer1[idx].opaque]
       IN  /\ out' = [out EXCEPT ![pin] = LOW]
           /\ lows' = [lows EXCEPT ![pin] = @ + 1]
    /\ timer1' = [timer1 EXCEPT ![idx].repeat = FALSE]
    /\ pc' = "rm1"
    /\ UNCHANGED << variant, clock, idx, timer2, t0, delays, repRate,
                    durations, brights, duration1, trigcnt, trigcnt_daq,
                    trigcnt_dat, DAQIsReady, duration_daq, sum, ncounts,
                    sum_daq, ncounts_daq, ADCcontinue, integration,
                    debugmode, dt, datMsg, reply, wr, ntrig, acc, lastTrig,
                    owner, highs, dsnap, riseAt, lastSet, rateCmd, cnt, ncmd,
                    nlate, nsamp, bsnap, daq, enq >>

\* ---- ShutterSCPI callbacks ----
\* shutterOpen(): myservo.write(90).  The function returns nothing; the
\* task was scheduled with repeat = 0, so it is removed whatever tick()
\* reads as the result
Fire_shutterOpen ==
    /\ Calls("shutterOpen")
    /\ out' = [out EXCEPT ![SERVOPIN] = 90]
    /\ highs' = [highs EXCEPT ![SERVOPIN] = @ + 1]
    /\ riseAt' = [riseAt EXCEPT ![SERVOPIN] = Micros(clock)]
    /\ timer1' = [timer1 EXCEPT ![idx].repeat = FALSE]
    /\ pc' = "rm1"
    /\ UNCHANGED << variant, clock, idx, timer2, t0, delays, repRate,
                    durations, brights, duration1, trigcnt, trigcnt_daq,
                    trigcnt_dat, DAQIsReady, duration_daq, sum, ncounts,
                    sum_daq, ncounts_daq, ADCcontinue, integration,
                    debugmode, dt, datMsg, reply, wr, ntrig, acc, lastTrig,
                    owner, lows, dsnap, lastSet, rateCmd, cnt, ncmd, nlate,
                    nsamp, bsnap, daq, enq >>

\* shutterClose(): myservo.write(0)
Fire_shutterClose ==
    /\ Calls("shutterClose")
    /\ out' = [out EXCEPT ![SERVOPIN] = 0]
    /\ lows' = [lows EXCEPT ![SERVOPIN] = @ + 1]
    /\ timer1' = [timer1 EXCEPT ![idx].repeat = FALSE]
    /\ pc' = "rm1"
    /\ UNCHANGED << variant, clock, idx, timer2, t0, delays, repRate,
                    durations, brights, duration1, trigcnt, trigcnt_daq,
                    trigcnt_dat, DAQIsReady, duration_daq, sum, ncounts,
                    sum_daq, ncounts_daq, ADCcontinue, integration,
                    debugmode, dt, datMsg, reply, wr, ntrig, acc, lastTrig,
                    owner, highs, dsnap, riseAt, lastSet, rateCmd, cnt, ncmd,
                    nlate, nsamp, bsnap, daq, enq >>

\* ---- PhotoSCPI (streaming) callbacks ----
\* DAQStart: sum = 0; ncounts = 0
Fire_DAQStartS ==
    /\ variant = "PHS" /\ Calls("DAQStart")
    /\ sum' = 0 /\ ncounts' = 0
    /\ daq' = [daq EXCEPT !.sumOf = owner[idx], !.last = "start", !.win = 0]
    /\ timer1' = [timer1 EXCEPT ![idx].repeat = FALSE]
    /\ pc' = "rm1"
    /\ UNCHANGED << variant, clock, idx, timer2, t0, out, delays, repRate,
                    durations, brights, duration1, trigcnt, trigcnt_daq,
                    trigcnt_dat, DAQIsReady, duration_daq, sum_daq,
                    ncounts_daq, ADCcontinue, integration, debugmode, dt,
                    datMsg, reply, wr, ntrig, acc, lastTrig, owner, highs,
                    lows, dsnap, riseAt, lastSet, rateCmd, cnt, ncmd, nlate,
                    nsamp, bsnap, enq >>

\* DAQStop: latches the sums, computes the integral, prints the stream
\* line (and the debug lines), sets DAQIsReady
Fire_DAQStopS ==
    /\ variant = "PHS" /\ Calls("DAQStop")
    /\ sum_daq' = sum /\ ncounts_daq' = ncounts
    /\ trigcnt_dat' = trigcnt_daq
    /\ integration' = Integral(sum, ncounts, duration_daq)
    /\ datMsg' = StreamMsg(integration', trigcnt_daq)
    /\ \E q \in Quotients(duration_daq, ncounts) :
         /\ dt' = IF debugmode THEN q ELSE dt
         /\ reply' = IF debugmode
                     THEN << datMsg',
                             [dbg |-> "DURATION_DAQ", val |-> duration_daq],
                             [dbg |-> "DURATION1", val |-> duration1],
                             [dbg |-> "DT", val |-> q],
                             [dbg |-> "AVG_DAQ", val |-> << sum, ncounts >>],
                             [dbg |-> "AVG_VOLTS", val |-> << sum, ncounts >>],
                             [dbg |-> "AVG_DAQ", val |-> << sum, ncounts >>],
                             [dbg |-> "NCOUNTS", val |-> ncounts] >>
                     ELSE << datMsg' >>
    /\ DAQIsReady' = TRUE
    /\ daq' = [daq EXCEPT !.msgDat = daq.sumOf, !.msgTrig = acc,
                          !.last = "stop", !.streams = @ + 1,
                          !.read = << >>]
    /\ timer1' = [timer1 EXCEPT ![idx].repeat = FALSE]
    /\ pc' = "rm1"
    /\ UNCHANGED << variant, clock, idx, timer2, t0, out, delays, repRate,
                    durations, brights, duration1, trigcnt, trigcnt_daq,
                    duration_daq, sum, ncounts, ADCcontinue, debugmode, wr,
                    ntrig, acc, lastTrig, owner, highs, lows, dsnap, riseAt,
                    lastSet, rateCmd, cnt, ncmd, nlate, nsamp, bsnap, enq >>

\* loop(): sum = sum + analogRead(PHOTOPIN); ncounts++.  Only the first
\* MaxSamples samples after a reset of the counters are followed.
AnalogVals == {0, 1023}
Sample ==
    /\ pc = "sample"
    /\ \E a \in AnalogVals :
         sum' = IF ncounts < MaxSamples THEN UAdd(sum, a) ELSE sum
    /\ ncounts' = IF ncounts < MaxSamples THEN UAdd(ncounts, 1) ELSE ncounts
    /\ daq' = [daq EXCEPT !.win = IF @ >= 0 /\ @ < MaxSamples THEN @ + 1
                                  ELSE @]
    /\ pc' = "tick1"
    /\ UNCHANGED << variant, clock, idx, timer1, timer2, t0, out, delays,
                    repRate, durations, brights, duration1, trigcnt,
                    trigcnt_daq, trigcnt_dat, DAQIsReady, duration_daq,
                    sum_daq, ncounts_daq, ADCcontinue, integration,
                    debugmode, dt, datMsg, reply, wr, ntrig, acc, lastTrig,
                    owner, highs, lows, dsnap, riseAt, lastSet, rateCmd, cnt,
                    ncmd, nlate, nsamp, bsnap, enq >>

\* ---- PhotoSCPI (timed) callbacks ----
\* DAQStart: sum = 0; ADCcontinue = true; timer1.every(dt, DAQRead)
Fire_DAQStartT ==
    /\ variant = "PHT" /\ Calls("DAQStart")
    /\ sum' = 0 /\ ADCcontinue' = TRUE /\ nsamp' = 0
    /\ daq' = [daq EXCEPT !.sumOf = owner[idx], !.last = "start"]
    /\ LET tm == DAQStartTimer(timer1, Micros(clock))
       IN  /\ timer1' = [tm EXCEPT ![idx].repeat = FALSE]
           /\ owner' = Owned(timer1, tm, owner[idx])
           /\ enq' = Stamped(timer1, tm)
    /\ pc' = "rm1"
    /\ UNCHANGED << variant, clock, idx, timer2, t0, out, delays, repRate,
                    durations, brights, duration1, trigcnt, trigcnt_daq,
                    trigcnt_dat, DAQIsReady, duration_daq, ncounts, sum_daq,
                    ncounts_daq, integration, debugmode, dt, datMsg, reply,
                    wr, ntrig, acc, lastTrig, highs, lows, dsnap, riseAt,
                    lastSet, rateCmd, cnt, ncmd, nlate, bsnap >>

\* DAQRead: sum = sum + analogRead(PHOTOPIN); return ADCcontinue.  tick()
\* rearms the task (start = the time it read) while the result is true.
\* Only the first MaxSamples reads of an acquisition are followed.
Fire_DAQRead ==
    /\ variant = "PHT" /\ Calls("DAQRead")
    /\ nsamp' = IF nsamp < MaxSamples THEN nsamp + 1 ELSE nsamp
    /\ \E a \in AnalogVals :
         sum' = IF nsamp < MaxSamples THEN UAdd(sum, a) ELSE sum
    /\ IF ADCcontinue /\ timer1[idx].repeat
       THEN /\ timer1' = [timer1 EXCEPT ![idx].start = Micros(clock)]
            /\ idx' = idx + 1 /\ pc' = "tick1"
       ELSE /\ timer1' = [timer1 EXCEPT ![idx].repeat = FALSE]
            /\ idx' = idx /\ pc' = "rm1"
    /\ UNCHANGED << variant, clock, timer2, t0, out, delays, repRate,
                    durations, brights, duration1, trigcnt, trigcnt_daq,
                    trigcnt_dat, DAQIsReady, duration_daq, ncounts, sum_daq,
                    ncounts_daq, ADCcontinue, integration, debugmode, dt,
                    datMsg, reply, wr, ntrig, acc, lastTrig, owner, highs,
                    lows, dsnap, riseAt, lastSet, rateCmd, cnt, ncmd, nlate,
                    bsnap, daq, enq >>

\* DAQStop: ADCcontinue = false; integration = (sum * dt) * ...
Fire_DAQStopT ==
    /\ variant = "PHT" /\ Calls("DAQStop")
    /\ ADCcontinue' = FALSE
    /\ integration' = IntegralT(sum)
    /\ daq' = [daq EXCEPT !.msgDat = daq.sumOf, !.msgTrig = owner[idx],
                          !.last = "stop", !.read = << >>]
    /\ timer1' = [timer1 EXCEPT ![idx].repeat = FALSE]
    /\ pc' = "rm1"
    /\ UNCHANGED << variant, clock, idx, timer2, t0, out, delays, repRate,
                    durations, brights, duration1, trigcnt, trigcnt_daq,
                    trigcnt_dat, DAQIsReady, duration_daq, sum, ncounts,
                    sum_daq, ncounts_daq, debugmode, dt, datMsg, reply, wr,
                    ntrig, acc, lastTrig, owner, highs, lows, dsnap, riseAt,
                    lastSet, rateCmd, cnt, ncmd, nlate, nsamp, bsnap, enq >>

(***************************************************************************)
(* timer2.tick() (PG): calls trigStart every repTime milliseconds           *)
(***************************************************************************)
Tick2Skip ==
    /\ pc = "tick2"
    /\ ~Due(timer2[0], Millis(clock))
    /\ pc' = "serial"
    /\ UNCHANGED << variant, clock, idx, timer1, timer2, t0, out, delays,
                    repRate, durations, brights, duration1, trigcnt,
                    trigcnt_daq, trigcnt_dat, DAQIsReady, duration_daq, sum,
                    ncounts, sum_daq, ncounts_daq, ADCcontinue, integration,
                    debugmode, dt, datMsg, reply, wr, ntrig, acc, lastTrig,
                    owner, highs, lows, dsnap, riseAt, lastSet, rateCmd, cnt,
                    ncmd, nlate, nsamp, bsnap, daq, enq >>

\* trigStart(): schedules a cycle when timer1 is idle, returns true; tick()
\* rearms the periodic task with start = the millis() it read
Tick2Fire ==
    /\ pc = "tick2"
    /\ Due(timer2[0], Millis(clock))
    /\ ntrig < MaxTrig
    /\ ntrig' = ntrig + 1
    /\ IF TrigIdle(timer1)
       THEN LET tm == TrigStartTimer(timer1, Micros(clock), delays)
            IN  /\ t0' = TimeZero(Micros(clock))
                /\ timer1' = tm
                /\ acc' = acc + 1
                /\ lastTrig' = "accepted"
                /\ owner' = Owned(timer1, tm, acc + 1)
                /\ enq' = Stamped(timer1, tm)
                /\ highs' = ZeroOn(PinsPG) /\ lows' = ZeroOn(PinsPG)
                /\ riseAt' = ZeroOn(PinsPG)
                /\ dsnap' = [p \in PinsPG |->
                               IF p = TRIGOUT THEN 0 ELSE delays[p - 4]]
       ELSE /\ lastTrig' = "dropped"
            /\ UNCHANGED << t0, timer1, acc, owner, enq, highs, lows, riseAt,
                            dsnap >>
    /\ timer2' = IF timer2[0].repeat
                 THEN [timer2 EXCEPT ![0].start = Millis(clock)]
                 ELSE Cancel(timer2)
    /\ rateCmd' = [rateCmd EXCEPT !.at = -1]
    /\ pc' = "serial"
    /\ UNCHANGED << variant, clock, idx, out, delays, repRate, durations,
                    brights, duration1, trigcnt, trigcnt_daq, trigcnt_dat,
                    DAQIsReady, duration_daq, sum, ncounts, sum_daq,
                    ncounts_daq, ADCcontinue, integration, debugmode, dt,
                    datMsg, reply, wr, lastSet, cnt, ncmd, nlate, nsamp,
                    bsnap, daq >>

(***************************************************************************)
(* The external trigger: attachInterrupt(EXTTRIG, myISR, RISING).  The     *)
(* handler preempts the run loop between any two of its steps.             *)
(***************************************************************************)
\* LEDsSCPI myISR
ISR_LED ==
    /\ variant = "LED"
    /\ ntrig < MaxTrig /\ ntrig' = ntrig + 1
    /\ IF IdleLED(timer1)
       THEN LET tm == SchedLEDs(timer1, 0, Micros(clock),
                                TimeZero(Micros(clock)), durations)
            IN  /\ t0' = TimeZero(Micros(clock))
                /\ timer1' = tm
                /\ acc' = acc + 1 /\ lastTrig' = "accepted"
                /\ owner' = Owned(timer1, tm, acc + 1)
                /\ enq' = Stamped(timer1, tm)
                /\ highs' = ZeroOn(PinsLED) /\ lows' = ZeroOn(PinsLED)
                /\ riseAt' = ZeroOn(PinsLED)
                /\ dsnap' = [p \in PinsLED |->
                    durations[CHOOSE i \in 0..(NLED-1) : LEDPins[i] = p]]
                /\ bsnap' = [p \in PinsLED |->
                    brights[CHOOSE i \in 0..(NLED-1) : LEDPins[i] = p]]
       ELSE /\ lastTrig' = "dropped"
            /\ UNCHANGED << t0, timer1, acc, owner, enq, highs, lows, riseAt,
                            dsnap, bsnap >>
    /\ UNCHANGED << variant, clock, pc, idx, timer2, out, delays, repRate,
                    durations, brights, duration1, trigcnt, trigcnt_daq,
                    trigcnt_dat, DAQIsReady, duration_daq, sum, ncounts,
                    sum_daq, ncounts_daq, ADCcontinue, integration,
                    debugmode, dt, datMsg, reply, wr, lastSet, rateCmd, cnt,
                    ncmd, nlate, nsamp, daq >>

\* ShutterSCPI myISR
ISR_Shutter ==
    /\ variant = "SHUT"
    /\ ntrig < MaxTrig /\ ntrig' = ntrig + 1
    /\ IF IdleShutter(timer1)
       THEN LET tm == SchedShutter(timer1, Micros(clock),
                                   TimeZero(Micros(clock)), duration1)
            IN  /\ t0' = TimeZero(Micros(clock))
                /\ timer1' = tm
                /\ acc' = acc + 1 /\ lastTrig' = "accepted"
                /\ owner' = Owned(timer1, tm, acc + 1)
                /\ enq' = Stamped(timer1, tm)
                /\ highs' = ZeroOn({SERVOPIN}) /\ lows' = ZeroOn({SERVOPIN})
                /\ riseAt' = ZeroOn({SERVOPIN})
                /\ dsnap' = [p \in {SERVOPIN} |-> duration1]
       ELSE /\ lastTrig' = "dropped"
            /\ UNCHANGED << t0, timer1, acc, owner, enq, highs, lows, riseAt,
                            dsnap >>
    /\ UNCHANGED << variant, clock, pc, idx, timer2, out, delays, repRate,
                    durations, brights, duration1, trigcnt, trigcnt_daq,
                    trigcnt_dat, DAQIsReady, duration_daq, sum, ncounts,
                    sum_daq, ncounts_daq, ADCcontinue, integration,
                    debugmode, dt, datMsg, reply, wr, lastSet, rateCmd, cnt,
                    ncmd, nlate, nsamp, bsnap, daq >>

\* PhotoSCPI (streaming) myISR: counts the edge, then schedules
ISR_PhotoS ==
    /\ variant = "PHS"
    /\ ntrig < MaxTrig /\ ntrig' = ntrig + 1
    /\ trigcnt' = UAdd(trigcnt, 1)
    /\ cnt' = [cnt EXCEPT !.a = @ + 1,
                          !.b = IF wr.var = "trigcnt" THEN @ ELSE @ + 1]
    /\ IF IdlePhotoS(timer1, DAQIsReady)
       THEN LET tm == SchedPhoto(timer1, Micros(clock),
                                 TimeZero(Micros(clock)), duration1)
            IN  /\ DAQIsReady' = FALSE
                /\ trigcnt_daq' = trigcnt'
                /\ t0' = TimeZero(Micros(clock))
                /\ duration_daq' = duration1
                /\ timer1' = tm
                /\ acc' = acc + 1 /\ lastTrig' = "accepted"
                /\ owner' = Owned(timer1, tm, acc + 1)
                /\ enq' = Stamped(timer1, tm)
                /\ daq' = [daq EXCEPT !.dur = duration1, !.win = -1]
       ELSE /\ lastTrig' = "dropped"
            /\ UNCHANGED << DAQIsReady, trigcnt_daq, t0, duration_daq, timer1,
                            acc, owner, enq, daq >>
    /\ UNCHANGED << variant, clock, pc, idx, timer2, out, delays, repRate,
                    durations, brights, duration1, trigcnt_dat, sum, ncounts,
                    sum_daq, ncounts_daq, ADCcontinue, integration,
                    debugmode, dt, datMsg, reply, wr, highs, lows, dsnap,
                    riseAt, lastSet, rateCmd, ncmd, nlate, nsamp, bsnap >>

\* PhotoSCPI (timed) myISR
ISR_PhotoT ==
    /\ variant = "PHT"
    /\ ntrig < MaxTrig /\ ntrig' = ntrig + 1
    /\ IF IdlePhotoT(timer1)
       THEN LET tm == SchedPhoto(timer1, Micros(clock),
                                 TimeZero(Micros(clock)), duration1)
            IN  /\ t0' = TimeZero(Micros(clock))
                /\ timer1' = tm
                /\ acc' = acc + 1 /\ lastTrig' = "accepted"
                /\ owner' = Owned(timer1, tm, acc + 1)
                /\ enq' = Stamped(timer1, tm)
                /\ daq' = [daq EXCEPT !.dur = duration1, !.win = -1]
       ELSE /\ lastTrig' = "dropped"
            /\ UNCHANGED << t0, timer1, acc, owner, enq, daq >>
    /\ UNCHANGED << variant, clock, pc, idx, timer2, out, delays, repRate,
                    durations, brights, duration1, trigcnt, trigcnt_daq,
                    trigcnt_dat, DAQIsReady, duration_daq, sum, ncounts,
                    sum_daq, ncounts_daq, ADCcontinue, integration,
                    debugmode, dt, datMsg, reply, wr, highs, lows, dsnap,
                    riseAt, lastSet, rateCmd, cnt, ncmd, nlate, nsamp,
                    bsnap >>

(***************************************************************************)
(* ProcessInput(): at most one command per loop iteration.  A command is   *)
(* its channel suffix as written (NoSuffix when the header has none) and   *)
(* its parameter list: << v >> with a value, << >> without.                *)
(***************************************************************************)
NoSuffix     == -1
SuffixesPG   == {0, NCHAN, NoSuffix, IntMod}
DelayVals    == {2500, 40000}
RateVals     == {250, 5000}
SuffixesLED  == {0, NLED, NoSuffix, IntMod}
DurationVals == {ULongMod - 500}
BrightVals   == {-5, 300, 40000}
TrigVals     == {HalfMod - 1}
ShortDurations == {0, 8}

\* a command is taken from the serial line and its handler called
Takes(v) ==
    /\ pc = "serial" /\ variant = v
    /\ ncmd < MaxCmds

NoInput ==
    /\ pc = "serial"
    /\ pc' = AfterSerial(variant)
    /\ UNCHANGED << variant, clock, idx, timer1, timer2, t0, out, delays,
                    repRate, durations, brights, duration1, trigcnt,
                    trigcnt_daq, trigcnt_dat, DAQIsReady, duration_daq, sum,
                    ncounts, sum_daq, ncounts_daq, ADCcontinue, integration,
                    debugmode, dt, datMsg, reply, wr, ntrig, acc, lastTrig,
                    owner, highs, lows, dsnap, riseAt, lastSet, rateCmd, cnt,
                    ncmd, nlate, nsamp, bsnap, daq, enq >>

\* int suffix = -1; sscanf(header, "%*[CHANNEL]%u", &suffix): the digits are
\* accumulated and their low IntBits bits stored in the int; without
\* digits nothing is stored
ScanSuffix(written) == IF written = NoSuffix THEN -1 ELSE ToInt(written)

\* ---- PulseGeneratorSCPI ----
\* setDelay: String(parameters.First()).toInt(), 0 for an empty list
SetDelay(written, parameters) ==
    /\ Takes("PG") /\ ncmd' = ncmd + 1
    /\ LET suffix == ScanSuffix(written)
           val == IF Len(parameters) > 0 THEN parameters[1] ELSE 0
       IN  /\ delays' = SetDelayTable(delays, suffix, val)
           /\ lastSet' = IF suffix \in DOMAIN lastSet
                         THEN [lastSet EXCEPT ![suffix] = val] ELSE lastSet
    /\ pc' = AfterSerial(variant)
    /\ UNCHANGED << variant, clock, idx, timer1, timer2, t0, out, repRate,
                    durations, brights, duration1, trigcnt, trigcnt_daq,
                    trigcnt_dat, DAQIsReady, duration_daq, sum, ncounts,
                    sum_daq, ncounts_daq, ADCcontinue, integration,
                    debugmode, dt, datMsg, reply, wr, ntrig, acc, lastTrig,
                    owner, highs, lows, dsnap, riseAt, rateCmd, cnt, nlate,
                    nsamp, bsnap, daq, enq >>

Cmd_setDelay ==
    \E suffix \in SuffixesPG, val \in DelayVals : SetDelay(suffix, << val >>)

GetDelay(written) ==
    /\ Takes("PG") /\ ncmd' = ncmd + 1
    /\ reply' = GetDelayLine(delays, ScanSuffix(written), reply)
    /\ pc' = AfterSerial(variant)
    /\ UNCHANGED << variant, clock, idx, timer1, timer2, t0, out, delays,
                    repRate, durations, brights, duration1, trigcnt,
                    trigcnt_daq, trigcnt_dat, DAQIsReady, duration_daq, sum,
                    ncounts, sum_daq, ncounts_daq, ADCcontinue, integration,
                    debugmode, dt, datMsg, wr, ntrig, acc, lastTrig, owner,
                    highs, lows, dsnap, riseAt, lastSet, rateCmd, cnt, nlate,
                    nsamp, bsnap, daq, enq >>

Cmd_getDelay == \E suffix \in SuffixesPG : GetDelay(suffix)

\* setRepRate: updateRepRate(first_parameter.toDouble())
Cmd_setRepRate ==
    /\ Takes("PG") /\ ncmd' = ncmd + 1
    /\ \E rate \in RateVals :
         /\ timer2' = UpdateRepRateTimer(timer2, Millis(clock), rate)
         /\ repRate' = rate
         /\ rateCmd' = [at |-> Millis(clock),
                        oldDue |-> UAdd(timer2[0].start, timer2[0].expires)]
    /\ pc' = AfterSerial(variant)
    /\ UNCHANGED << variant, clock, idx, timer1, t0, out, delays, durations,
                    brights, duration1, trigcnt, trigcnt_daq, trigcnt_dat,
                    DAQIsReady, duration_daq, sum, ncounts, sum_daq,
                    ncounts_daq, ADCcontinue, integration, debugmode, dt,
                    datMsg, reply, wr, ntrig, acc, lastTrig, owner, highs,
                    lows, dsnap, riseAt, lastSet, cnt, nlate, nsamp, bsnap,
                    daq, enq >>

Cmd_getRepRate ==
    /\ Takes("PG") /\ ncmd' = ncmd + 1
    /\ reply' = << [cmd |-> "REPrate?", ch |-> -1, val |-> repRate] >>
    /\ pc' = AfterSerial(variant)
    /\ UNCHANGED << variant, clock, idx, timer1, timer2, t0, out, delays,
                    repRate, durations, brights, duration1, trigcnt,
                    trigcnt_daq, trigcnt_dat, DAQIsReady, duration_daq, sum,
                    ncounts, sum_daq, ncounts_daq, ADCcontinue, integration,
                    debugmode, dt, datMsg, wr, ntrig, acc, lastTrig, owner,
                    highs, lows, dsnap, riseAt, lastSet, rateCmd, cnt, nlate,
                    nsamp, bsnap, daq, enq >>

\* ---- LEDsSCPI ----
\* setBrightness: nothing is stored when parameters.Size() is 0
SetBrightness(written, parameters) ==
    /\ Takes("LED") /\ ncmd' = ncmd + 1
    /\ brights' = IF Len(parameters) > 0
                  THEN SetBrightnessTable(brights, ScanSuffix(written),
                                          parameters[1])
                  ELSE brights
    /\ pc' = AfterSerial(variant)
    /\ UNCHANGED << variant, clock, idx, timer1, timer2, t0, out, delays,
                    repRate, durations, duration1, trigcnt, trigcnt_daq,
                    trigcnt_dat, DAQIsReady, duration_daq, sum, ncounts,
                    sum_daq, ncounts_daq, ADCcontinue, integration,
                    debugmode, dt, datMsg, reply, wr, ntrig, acc, lastTrig,
                    owner, highs, lows, dsnap, riseAt, lastSet, rateCmd, cnt,
                    nlate, nsamp, bsnap, daq, enq >>

Cmd_setBrightness ==
    \E suffix \in SuffixesLED, val \in BrightVals :
       SetBrightness(suffix, << val >>)

GetBrightness(written) ==
    /\ Takes("LED") /\ ncmd' = ncmd + 1
    /\ LET suffix == ScanSuffix(written)
       IN  reply' = IF suffix >= 0 /\ suffix < NLED
                    THEN << [cmd |-> "BRIGhtness?", ch |-> suffix,
                             val |-> brights[suffix]] >>
                    ELSE reply
    /\ pc' = AfterSerial(variant)
    /\ UNCHANGED << variant, clock, idx, timer1, timer2, t0, out, delays,
                    repRate, durations, brights, duration1, trigcnt,
                    trigcnt_daq, trigcnt_dat, DAQIsReady, duration_daq, sum,
                    ncounts, sum_daq, ncounts_daq, ADCcontinue, integration,
                    debugmode, dt, datMsg, wr, ntrig, acc, lastTrig, owner,
                    highs, lows, dsnap, riseAt, lastSet, rateCmd, cnt, nlate,
                    nsamp, bsnap, daq, enq >>

Cmd_getBrightness == \E suffix \in SuffixesLED : GetBrightness(suffix)

\* the store of an unsigned long takes two steps, in either order: the
\* value after the first one
HalfStored(old, val, first) ==
    IF first = "lo" THEN Join(Hi(old), Lo(val)) ELSE Join(Hi(val), Lo(old))
Other(half) == IF half = "lo" THEN "hi" ELSE "lo"

\* setDuration: durations[suffix] = strtoul(parameters[0], NULL, 0), when
\* the suffix is valid and parameters.Size() > 0
SetDurationLED(written, parameters, first) ==
    /\ Takes("LED") /\ ncmd' = ncmd + 1
    /\ LET suffix == ScanSuffix(written)
       IN  IF suffix >= 0 /\ suffix < NLED /\ Len(parameters) > 0
           THEN /\ durations' = [durations EXCEPT ![suffix] =
                                   HalfStored(@, StrToUL(parameters[1]), first)]
                /\ wr' = [var |-> "durations", ch |-> suffix,
                          val |-> StrToUL(parameters[1]), rest |-> Other(first)]
                /\ pc' = "wr2"
           ELSE /\ pc' = AfterSerial(variant)
                /\ UNCHANGED << durations, wr >>
    /\ UNCHANGED << variant, clock, idx, timer1, timer2, t0, out, delays,
                    repRate, brights, duration1, trigcnt, trigcnt_daq,
                    trigcnt_dat, DAQIsReady, duration_daq, sum, ncounts,
                    sum_daq, ncounts_daq, ADCcontinue, integration,
                    debugmode, dt, datMsg, reply, ntrig, acc, lastTrig,
                    owner, highs, lows, dsnap, riseAt, lastSet, rateCmd, cnt,
                    nlate, nsamp, bsnap, daq, enq >>

Cmd_setDurationLED ==
    \E suffix \in SuffixesLED, val \in DurationVals, first \in {"lo", "hi"} :
       SetDurationLED(suffix, << val >>, first)

GetDurationLED(written) ==
    /\ Takes("LED") /\ ncmd' = ncmd + 1
    /\ LET suffix == ScanSuffix(written)
       IN  reply' = IF suffix >= 0 /\ suffix < NLED
                    THEN << [cmd |-> "DURation?", ch |-> suffix,
                             val |-> durations[suffix]] >>
                    ELSE reply
    /\ pc' = AfterSerial(variant)
    /\ UNCHANGED << variant, clock, idx, timer1, timer2, t0, out, delays,
                    repRate, durations, brights, duration1, trigcnt,
                    trigcnt_daq, trigcnt_dat, DAQIsReady, duration_daq, sum,
                    ncounts, sum_daq, ncounts_daq, ADCcontinue, integration,
                    debugmode, dt, datMsg, wr, ntrig, acc, lastTrig, owner,
                    highs, lows, dsnap, riseAt, lastSet, rateCmd, cnt, nlate,
                    nsamp, bsnap, daq, enq >>

Cmd_getDurationLED == \E suffix \in SuffixesLED : GetDurationLED(suffix)

\* ---- ShutterSCPI and PhotoSCPI: duration1 ----
\* setDuration: duration1 = strtoul(parameters[0], NULL, 0), when
\* parameters.Size() > 0
SetDuration1(parameters, first) ==
    /\ pc = "serial" /\ variant \in {"SHUT", "PHS", "PHT"}
    /\ ncmd < MaxCmds /\ ncmd' = ncmd + 1
    /\ IF Len(parameters) > 0
       THEN /\ duration1' = HalfStored(duration1, StrToUL(parameters[1]), first)
            /\ wr' = [var |-> "duration1", ch |-> 0,
                      val |-> StrToUL(parameters[1]), rest |-> Other(first)]
            /\ pc' = "wr2"
       ELSE /\ pc' = AfterSerial(variant)
            /\ UNCHANGED << duration1, wr >>
    /\ UNCHANGED << variant, clock, idx, timer1, timer2, t0, out, delays,
                    repRate, durations, brights, trigcnt, trigcnt_daq,
                    trigcnt_dat, DAQIsReady, duration_daq, sum, ncounts,
                    sum_daq, ncounts_daq, ADCcontinue, integration,
                    debugmode, dt, datMsg, reply, ntrig, acc, lastTrig,
                    owner, highs, lows, dsnap, riseAt, lastSet, rateCmd, cnt,
                    nlate, nsamp, bsnap, daq, enq >>

Cmd_setDuration1 ==
    \E val \in DurationVals, first \in {"lo", "hi"} :
       SetDuration1(<< val >>, first)
\* the same command with a duration below one sample interval
Cmd_setDurationShort ==
    \E val \in ShortDurations, first \in {"lo", "hi"} :
       SetDuration1(<< val >>, first)
\* a set command that comes without a value
Cmd_setBare ==
    \/ \E suffix \in SuffixesPG : SetDelay(suffix, << >>)
    \/ \E suffix \in SuffixesLED : SetBrightness(suffix, << >>)
    \/ \E suffix \in SuffixesLED : SetDurationLED(suffix, << >>, "lo")
    \/ SetDuration1(<< >>, "lo")

Cmd_getDuration1 ==
    /\ pc = "serial" /\ variant \in {"SHUT", "PHS", "PHT"}
    /\ ncmd < MaxCmds /\ ncmd' = ncmd + 1
    /\ reply' = << [cmd |-> "DURation?", ch |-> -1, val |-> duration1] >>
    /\ pc' = AfterSerial(variant)
    /\ UNCHANGED << variant, clock, idx, timer1, timer2, t0, out, delays,
                    repRate, durations, brights, duration1, trigcnt,
                    trigcnt_daq, trigcnt_dat, DAQIsReady, duration_daq, sum,
                    ncounts, sum_daq, ncounts_daq, ADCcontinue, integration,
                    debugmode, dt, datMsg, wr, ntrig, acc, lastTrig, owner,
                    highs, lows, dsnap, riseAt, lastSet, rateCmd, cnt, nlate,
                    nsamp, bsnap, daq, enq >>

\* ---- PhotoSCPI (streaming) ----
\* fault: the reply computed from the sums as they are at the query
Cmd_getDataLive ==
    /\ Takes("PHS") /\ ncmd' = ncmd + 1
    /\ reply' = << StreamMsg(Integral(sum, ncounts, duration_daq),
                             trigcnt_daq) >>
    /\ daq' = [daq EXCEPT !.read = Append(@, reply'[1])]
    /\ pc' = AfterSerial(variant)
    /\ UNCHANGED << variant, clock, idx, timer1, timer2, t0, out, delays,
                    repRate, durations, brights, duration1, trigcnt,
                    trigcnt_daq, trigcnt_dat, DAQIsReady, duration_daq, sum,
                    ncounts, sum_daq, ncounts_daq, ADCcontinue, integration,
                    debugmode, dt, datMsg, wr, ntrig, acc, lastTrig, owner,
                    highs, lows, dsnap, riseAt, lastSet, rateCmd, cnt, nlate,
                    nsamp, bsnap, enq >>

\* getData: interface.println(datMsg)
Cmd_getData ==
    /\ Takes("PHS") /\ ncmd' = ncmd + 1
    /\ reply' = << datMsg >>
    /\ daq' = [daq EXCEPT !.read = Append(@, datMsg)]
    /\ pc' = AfterSerial(variant)
    /\ UNCHANGED << variant, clock, idx, timer1, timer2, t0, out, delays,
                    repRate, durations, brights, duration1, trigcnt,
                    trigcnt_daq, trigcnt_dat, DAQIsReady, duration_daq, sum,
                    ncounts, sum_daq, ncounts_daq, ADCcontinue, integration,
                    debugmode, dt, datMsg, wr, ntrig, acc, lastTrig, owner,
                    highs, lows, dsnap, riseAt, lastSet, rateCmd, cnt, nlate,
                    nsamp, bsnap, enq >>

Cmd_getTrigCount ==
    /\ Takes("PHS") /\ ncmd' = ncmd + 1
    /\ reply' = << [cmd |-> "TRIGCount?", ch |-> -1, val |-> trigcnt] >>
    /\ pc' = AfterSerial(variant)
    /\ UNCHANGED << variant, clock, idx, timer1, timer2, t0, out, delays,
                    repRate, durations, brights, duration1, trigcnt,
                    trigcnt_daq, trigcnt_dat, DAQIsReady, duration_daq, sum,
                    ncounts, sum_daq, ncounts_daq, ADCcontinue, integration,
                    debugmode, dt, datMsg, wr, ntrig, acc, lastTrig, owner,
                    highs, lows, dsnap, riseAt, lastSet, rateCmd, cnt, nlate,
                    nsamp, bsnap, daq, enq >>

\* setTrigCount: trigcnt = strtoul(parameters[0], NULL, 0)
Cmd_setTrigCount ==
    /\ Takes("PHS") /\ ncmd' = ncmd + 1
    /\ \E val \in TrigVals, first \in {"lo", "hi"} :
         /\ trigcnt' = HalfStored(trigcnt, StrToUL(val), first)
         /\ wr' = [var |-> "trigcnt", ch |-> 0, val |-> StrToUL(val),
                   rest |-> Other(first)]
         /\ cnt' = [val |-> StrToUL(val), a |-> 0, b |-> 0]
    /\ pc' = "wr2"
    /\ UNCHANGED << variant, clock, idx, timer1, timer2, t0, out, delays,
                    repRate, durations, brights, duration1, trigcnt_daq,
                    trigcnt_dat, DAQIsReady, duration_daq, sum, ncounts,
                    sum_daq, ncounts_daq, ADCcontinue, integration,
                    debugmode, dt, datMsg, reply, ntrig, acc, lastTrig,
                    owner, highs, lows, dsnap, riseAt, lastSet, rateCmd,
                    nlate, nsamp, bsnap, daq, enq >>

\* setDebugMode: debugmode = String(parameters[0]).toInt()
Cmd_setDebugMode ==
    /\ Takes("PHS") /\ ncmd' = ncmd + 1
    /\ \E val \in {0, 1} : debugmode' = (ToInt(val) # 0)
    /\ pc' = AfterSerial(variant)
    /\ UNCHANGED << variant, clock, idx, timer1, timer2, t0, out, delays,
                    repRate, durations, brights, duration1, trigcnt,
                    trigcnt_daq, trigcnt_dat, DAQIsReady, duration_daq, sum,
                    ncounts, sum_daq, ncounts_daq, ADCcontinue, integration,
                    dt, datMsg, reply, wr, ntrig, acc, lastTrig, owner,
                    highs, lows, dsnap, riseAt, lastSet, rateCmd, cnt, nlate,
                    nsamp, bsnap, daq, enq >>

Cmd_getDebugMode ==
    /\ Takes("PHS") /\ ncmd' = ncmd + 1
    /\ reply' = << [cmd |-> "DEBUG?", ch |-> -1, val |-> debugmode] >>
    /\ pc' = AfterSerial(variant)
    /\ UNCHANGED << variant, clock, idx, timer1, timer2, t0, out, delays,
                    repRate, durations, brights, duration1, trigcnt,
                    trigcnt_daq, trigcnt_dat, DAQIsReady, duration_daq, sum,
                    ncounts, sum_daq, ncounts_daq, ADCcontinue, integration,
                    debugmode, dt, datMsg, wr, ntrig, acc, lastTrig, owner,
                    highs, lows, dsnap, riseAt, lastSet, rateCmd, cnt, nlate,
                    nsamp, bsnap, daq, enq >>

\* ---- PhotoSCPI (timed) ----
\* getValue: interface.println(integration, 8)
Cmd_getValue ==
    /\ Takes("PHT") /\ ncmd' = ncmd + 1
    /\ reply' = << [cmd |-> "VALue?", ch |-> -1, val |-> integration] >>
    /\ daq' = [daq EXCEPT !.read = Append(@, integration)]
    /\ pc' = AfterSerial(variant)
    /\ UNCHANGED << variant, clock, idx, timer1, timer2, t0, out, delays,
                    repRate, durations, brights, duration1, trigcnt,
                    trigcnt_daq, trigcnt_dat, DAQIsReady, duration_daq, sum,
                    ncounts, sum_daq, ncounts_daq, ADCcontinue, integration,
                    debugmode, dt, datMsg, wr, ntrig, acc, lastTrig, owner,
                    highs, lows, dsnap, riseAt, lastSet, rateCmd, cnt, nlate,
                    nsamp, bsnap, enq >>

\* the second half of the store a set command began
StoreRest ==
    /\ pc = "wr2"
    /\ durations' = IF wr.var = "durations"
                    THEN [durations EXCEPT ![wr.ch] =
                            HalfStored(@, wr.val, wr.rest)]
                    ELSE durations
    /\ duration1' = IF wr.var = "duration1"
                    THEN HalfStored(duration1, wr.val, wr.rest) ELSE duration1
    /\ trigcnt' = IF wr.var = "trigcnt"
                  THEN HalfStored(trigcnt, wr.val, wr.rest) ELSE trigcnt
    /\ wr' = NoStore
    /\ pc' = AfterSerial(variant)
    /\ UNCHANGED << variant, clock, idx, timer1, timer2, t0, out, delays,
                    repRate, brights, trigcnt_daq, trigcnt_dat, DAQIsReady,
                    duration_daq, sum, ncounts, sum_daq, ncounts_daq,
                    ADCcontinue, integration, debugmode, dt, datMsg, reply,
                    ntrig, acc, lastTrig, owner, highs, lows, dsnap, riseAt,
                    lastSet, rateCmd, cnt, ncmd, nlate, nsamp, bsnap, daq,
                    enq >>

(***************************************************************************)
(* The clock.  Only the readings the program can tell apart are explored:  *)
(* time runs to the next pending deadline, arriving on it or Late after    *)
(* it.  One tick() scan is short against every delay of the program: the   *)
(* clock does not move inside a scan.  While nothing is pending on an      *)
(* externally triggered device, any time may pass before the next edge:    *)
(* the clock moves to one of IdleEpochs.                                   *)
(***************************************************************************)
IdleEpochs == {ULongMod - 500}
Rem2(c) ==
    IF timer2[0].handler = NULL THEN ClockMod
    ELSE IF Due(timer2[0], Millis(c)) THEN 0
    ELSE (timer2[0].expires - USub(Millis(c), timer2[0].start)) * 1000
         - (c % 1000)
\* once MaxSamples reads are in, the periodic read no longer paces the
\* clock: time runs to the next deadline of another task
Paces(s) ==
    ~(timer1[s].handler = "DAQRead" /\ nsamp >= MaxSamples)
NextDue ==
    MinOf({IF Paces(s) THEN Remaining(timer1[s], Micros(clock)) ELSE ClockMod :
             s \in DOMAIN timer1}
          \cup {IF variant = "PG" THEN Rem2(clock) ELSE ClockMod})
InScan == pc \in {"rm1", "rm2"} \/ (pc = "tick1" /\ idx # 0)

Advance ==
    /\ NextDue > 0 /\ NextDue < ClockMod
    /\ ~InScan
    /\ clock' = (clock + NextDue) % ClockMod
    /\ UNCHANGED << variant, pc, idx, timer1, timer2, t0, out, delays,
                    repRate, durations, brights, duration1, trigcnt,
                    trigcnt_daq, trigcnt_dat, DAQIsReady, duration_daq, sum,
                    ncounts, sum_daq, ncounts_daq, ADCcontinue, integration,
                    debugmode, dt, datMsg, reply, wr, ntrig, acc, lastTrig,
                    owner, highs, lows, dsnap, riseAt, lastSet, rateCmd, cnt,
                    ncmd, nlate, nsamp, bsnap, daq, enq >>

AdvanceLate ==
    /\ NextDue > 0 /\ NextDue < ClockMod
    /\ ~InScan
    /\ nlate < MaxLate /\ nlate' = nlate + 1
    /\ clock' = (clock + NextDue + Late) % ClockMod
    /\ UNCHANGED << variant, pc, idx, timer1, timer2, t0, out, delays,
                    repRate, durations, brights, duration1, trigcnt,
                    trigcnt_daq, trigcnt_dat, DAQIsReady, duration_daq, sum,
                    ncounts, sum_daq, ncounts_daq, ADCcontinue, integration,
                    debugmode, dt, datMsg, reply, wr, ntrig, acc, lastTrig,
                    owner, highs, lows, dsnap, riseAt, lastSet, rateCmd, cnt,
                    ncmd, nsamp, bsnap, daq, enq >>

IdleAdvance ==
    /\ variant # "PG" /\ Size(timer1) = 0 /\ ~InScan
    /\ \E e \in IdleEpochs : e # clock /\ clock' = e
    /\ UNCHANGED << variant, pc, idx, timer1, timer2, t0, out, delays,
                    repRate, durations, brights, duration1, trigcnt,
                    trigcnt_daq, trigcnt_dat, DAQIsReady, duration_daq, sum,
                    ncounts, sum_daq, ncounts_daq, ADCcontinue, integration,
                    debugmode, dt, datMsg, reply, wr, ntrig, acc, lastTrig,
                    owner, highs, lows, dsnap, riseAt, lastSet, rateCmd, cnt,
                    ncmd, nlate, nsamp, bsnap, daq, enq >>

(***************************************************************************)
(* Specifications: one per sketch, and Spec for a device running any       *)
(***************************************************************************)

NextPG ==
    \/ TickSkip \/ TickEnd \/ Remove1 \/ Remove2
    \/ Fire_TTLStart \/ Fire_TTLStop
    \/ Tick2Skip \/ Tick2Fire
    \/ NoInput \/ Cmd_setDelay \/ Cmd_getDelay \/ Cmd_setRepRate
    \/ Cmd_getRepRate
    \/ Advance \/ AdvanceLate

NextLED ==
    \/ TickSkip \/ TickEnd \/ Remove1 \/ Remove2
    \/ Fire_LEDStart \/ Fire_LEDStop
    \/ ISR_LED
    \/ NoInput \/ Cmd_setBrightness \/ Cmd_getBrightness
    \/ Cmd_setDurationLED \/ Cmd_getDurationLED \/ StoreRest
    \/ Advance \/ AdvanceLate \/ IdleAdvance

NextShutter ==
    \/ TickSkip \/ TickEnd \/ Remove1 \/ Remove2
    \/ Fire_shutterOpen \/ Fire_shutterClose
    \/ ISR_Shutter
    \/ NoInput \/ Cmd_setDuration1 \/ Cmd_getDuration1 \/ StoreRest
    \/ Advance \/ AdvanceLate \/ IdleAdvance

NextPhotoS ==
    \/ TickSkip \/ TickEnd \/ Remove1 \/ Remove2
    \/ Fire_DAQStartS \/ Fire_DAQStopS \/ Sample
    \/ ISR_PhotoS
    \/ NoInput \/ Cmd_setDuration1 \/ Cmd_getDuration1 \/ Cmd_getData
    \/ Cmd_getTrigCount \/ Cmd_setTrigCount \/ Cmd_setDebugMode
    \/ Cmd_getDebugMode \/ StoreRest
    \/ Advance \/ AdvanceLate \/ IdleAdvance

NextPhotoT ==
    \/ TickSkip \/ TickEnd \/ Remove1 \/ Remove2
    \/ Fire_DAQStartT \/ Fire_DAQRead \/ Fire_DAQStopT
    \/ ISR_PhotoT
    \/ NoInput \/ Cmd_setDuration1 \/ Cmd_getDuration1 \/ Cmd_getValue
    \/ StoreRest
    \/ Advance \/ AdvanceLate \/ IdleAdvance

\* each sketch with its edge-case commands only: a set command without a
\* value, a duration below one sample interval
NextEdge ==
    \/ TickSkip \/ TickEnd \/ Remove1 \/ Remove2
    \/ Fire_TTLStart \/ Fire_TTLStop \/ Tick2Skip \/ Tick2Fire
    \/ Fire_LEDStart \/ Fire_LEDStop
    \/ Fire_shutterOpen \/ Fire_shutterClose
    \/ Fire_DAQStartS \/ Fire_DAQStopS \/ Sample
    \/ Fire_DAQStartT \/ Fire_DAQRead \/ Fire_DAQStopT
    \/ ISR_LED \/ ISR_Shutter \/ ISR_PhotoS \/ ISR_PhotoT
    \/ NoInput \/ Cmd_setBare \/ Cmd_setDurationShort \/ Cmd_setDebugMode
    \/ StoreRest
    \/ Advance \/ AdvanceLate \/ IdleAdvance

Next ==
    \/ TickSkip \/ TickEnd \/ Remove1 \/ Remove2
    \/ Fire_TTLStart \/ Fire_TTLStop \/ Tick2Skip \/ Tick2Fire
    \/ Fire_LEDStart \/ Fire_LEDStop
    \/ Fire_shutterOpen \/ Fire_shutterClose
    \/ Fire_DAQStartS \/ Fire_DAQStopS \/ Sample
    \/ Fire_DAQStartT \/ Fire_DAQRead \/ Fire_DAQStopT
    \/ ISR_LED \/ ISR_Shutter \/ ISR_PhotoS \/ ISR_PhotoT
    \/ NoInput \/ Cmd_setDelay \/ Cmd_getDelay \/ Cmd_setRepRate
    \/ Cmd_getRepRate \/ Cmd_setBrightness \/ Cmd_getBrightness
    \/ Cmd_setDurationLED \/ Cmd_getDurationLED
    \/ Cmd_setDuration1 \/ Cmd_getDuration1
    \/ Cmd_getData \/ Cmd_getTrigCount \/ Cmd_setTrigCount
    \/ Cmd_setDebugMode \/ Cmd_getDebugMode \/ Cmd_getValue \/ StoreRest
    \/ Advance \/ AdvanceLate \/ IdleAdvance

Spec        == Init        /\ [][Next]_vars
SpecPG      == InitPG      /\ [][NextPG]_vars
SpecLED     == InitLED     /\ [][NextLED]_vars
SpecShutter == InitShutter /\ [][NextShutter]_vars
SpecPhotoS  == InitPhotoS  /\ [][NextPhotoS]_vars
SpecPhotoT  == InitPhotoT  /\ [][NextPhotoT]_vars
SpecEdge    == Init        /\ [][NextEdge]_vars

\* loop(): the statements of the run loop other than timer2.tick() and a
\* command: timer1.tick() with its callbacks, ProcessInput() without input
LoopPG ==
    \/ TickSkip \/ TickEnd \/ Remove1 \/ Remove2
    \/ Fire_TTLStart \/ Fire_TTLStop \/ NoInput
\* loop(): timer2.tick() returns, whether trigStart was due or not (a due
\* trigStart is followed MaxTrig times)
Tick2Returns ==
    /\ pc = "tick2" /\ pc' = "serial"
    /\ Due(timer2[0], Millis(clock)) => ntrig < MaxTrig
\* the pulse generator with a run loop that keeps running and a clock that
\* keeps moving: loop() is called again for ever, and whenever a deadline
\* lies ahead time reaches it
SpecPGLive ==
    /\ SpecPG
    /\ WF_vars(LoopPG) /\ WF_pc(Tick2Returns) /\ SF_vars(Advance)

(***************************************************************************)
(* Properties                                                              *)
(***************************************************************************)
\* a step in which a trigger arrives (internal trigStart or external edge)
TriggerStep == ntrig' # ntrig
Settings == << delays, durations, brights, duration1 >>

\* C1: overlap rejection, in every sketch: a trigger that arrives while
\* timer1.size() >= 1 adds no entry to timer1, does not change t0 and leaves
\* delays, durations, brights and duration1 unchanged.
C1_OverlapRejected ==
    [][(TriggerStep /\ Size(timer1) >= 1)
         => UNCHANGED << timer1, t0, Settings >>]_vars
\* a trigger has just been dropped while entries were pending
C1_Witness ==
    /\ lastTrig = "dropped" /\ ntrig >= 2
    /\ Size(timer1) >= 1

\* C2: at most one schedule is in flight: every entry pending in timer1
\* belongs to the cycle of the most recently accepted trigger, and t0 is
\* written only in a state where timer1 holds no pending entry.
C2_OneSchedule ==
    [][/\ (t0' # t0 \/ acc' # acc) => Size(timer1) = 0
       /\ \A s \in DOMAIN timer1' :
            timer1'[s].handler # NULL => owner'[s] = acc']_vars
\* a fall entry enqueued from inside TTLStart, in the second cycle
C2_Witness ==
    /\ variant = "PG" /\ acc = 2
    /\ \E s \in DOMAIN timer1 :
         timer1[s].handler = "TTLStop" /\ owner[s] = 2

\* C3: liveness of the Armed state: once a trigger has been accepted the
\* active count of timer1 returns to zero, for every storable setting.  In
\* the timed photodiode sketch only DAQStop ends the sampling DAQStart
\* begins, so the claim needs: while the sampler is on (ADCcontinue), the
\* DAQStop of the acquisition is still pending.
C3_ArmedEnds ==
    (variant = "PHT" /\ ADCcontinue)
      => \E s \in DOMAIN timer1 : timer1[s].handler = "DAQStop"

\* the pin a TTLStop task drives
ChannelPins == {chanPins[i] : i \in 0..(NCHAN-1)}
\* the delay of a pin as trigStart added it to t0: the int converted to
\* unsigned long
AsULong(d) == d % ULongMod

\* C4 (as claimed): the fall event of channel i has deadline
\* t0 + delays[i] + width, whenever the rise callback ran.
C4_FallAtFixedDeadline ==
    variant = "PG" =>
      \A s \in DOMAIN timer1 :
        timer1[s].handler = "TTLStop" =>
          UAdd(timer1[s].start, timer1[s].expires)
            = UAdd(UAdd(t0, AsULong(dsnap[timer1[s].opaque])), pulseTime)
\* C4 (amended): the fall event of a channel is due pulseTime after the
\* instant at which its rise callback ran.
C4_FallAfterRise ==
    variant = "PG" =>
      \A s \in DOMAIN timer1 :
        timer1[s].handler = "TTLStop" =>
          /\ timer1[s].start = riseAt[timer1[s].opaque]
          /\ timer1[s].expires = pulseTime
\* a fall is pending whose rise callback ran after its deadline
C4_Witness ==
    /\ variant = "PG"
    /\ \E s \in DOMAIN timer1 :
         /\ timer1[s].handler = "TTLStop"
         /\ riseAt[timer1[s].opaque]
              # UAdd(t0, AsULong(dsnap[timer1[s].opaque]))

\* C5: for every accepted trigger each of the nine outputs goes HIGH exactly
\* once and then LOW exactly once, HIGH first, and whenever timer1 is empty
\* every output is LOW.
C5_OnePulsePerOutput ==
    variant = "PG" =>
      \A p \in PinsPG :
        /\ lows[p] <= highs[p] /\ highs[p] <= 1
        /\ out[p] = HIGH <=> (highs[p] = 1 /\ lows[p] = 0)
        /\ Size(timer1) = 0 =>
             (out[p] = LOW /\ (acc > 0 => highs[p] = 1 /\ lows[p] = 1))
\* a cycle has run to its end
C5_Witness ==
    /\ variant = "PG" /\ acc >= 1 /\ Size(timer1) = 0
    /\ \A p \in PinsPG : highs[p] = 1 /\ lows[p] = 1 /\ out[p] = LOW

\* C6: deadline ordering: for one accepted trigger and two channels with
\* stored delays d1 < d2, the rise callback of the d1-channel runs no later
\* than that of the d2-channel.
C6_DeadlineOrder ==
    variant = "PG" =>
      \A p, q \in ChannelPins :
        (dsnap[p] < dsnap[q] /\ highs[q] >= 1) => highs[p] >= 1

\* C7: round trip of a channel delay: after 'DELay:CHannelN V' a following
\* 'DELay:CHannelN?' answers exactly V.
C7_DelayRoundTrip ==
    [][(variant = "PG" /\ reply' # reply /\ Len(reply') = 1
          /\ reply'[1].cmd = "DELay?" /\ lastSet[reply'[1].ch] # -1)
         => reply'[1].val = lastSet[reply'[1].ch]]_vars

\* C8: LED flasher and shutter: the on/open callback of an output runs
\* before its off/close callback, so that whenever the timer has returned
\* to empty every LED is off and the shutter is closed.
C8_OnBeforeOff ==
    variant \in {"LED", "SHUT"} =>
      \A p \in DOMAIN out :
        /\ lows[p] >= 1 => highs[p] >= 1
        /\ (acc >= 1 /\ Size(timer1) = 0) => out[p] = 0

C10_TrigCount ==
    (variant = "PHS" /\ wr.var # "trigcnt")
      => \E k \in cnt.b..cnt.a : trigcnt = UAdd(cnt.val, k)

(***************************************************************************)
(* C11  PhotoSCPI (streaming): every data message, pushed or returned by   *)
(* DATa?, carries a (DAT, TRIG) pair of one single completed acquisition:  *)
(* the sums behind DAT were reset by the DAQStart of the very acquisition  *)
(* whose accepted trigger supplied TRIG.                                   *)
(***************************************************************************)
C11_PairOfOneAcquisition ==
    (variant = "PHS" /\ daq.streams > 0) => daq.msgDat = daq.msgTrig

(***************************************************************************)
(* C12  Photodiode (both variants): one acquisition at a time.  No trigger *)
(* is accepted between the acceptance of a trigger and the end of the      *)
(* DAQStop callback of its acquisition, and the DAQStart and DAQStop       *)
(* callbacks strictly alternate: start, stop, start, stop, ...             *)
(***************************************************************************)
C12_StartStopAlternate ==
    [][ /\ (acc' # acc /\ acc > 0) => daq.msgTrig = acc
        /\ (Fire_DAQStartS \/ Fire_DAQStartT) => daq.last # "start"
        /\ (Fire_DAQStopS \/ Fire_DAQStopT) => daq.last = "start" ]_vars

(***************************************************************************)
(* C13  PhotoSCPI (streaming): exactly one unsolicited STREAM line per     *)
(* accepted trigger.  A line is printed only by the DAQStop callback, one  *)
(* line per call, each accepted trigger has at most one line, and once     *)
(* its tasks have left the timer it has exactly one; a dropped trigger     *)
(* and every other step print none.                                        *)
(***************************************************************************)
C13_OneStreamLinePerTrigger ==
    [][ variant = "PHS" =>
        /\ daq.streams' # daq.streams =>
             /\ Fire_DAQStopS /\ daq.streams' = daq.streams + 1
             /\ reply'[1] = StreamMsg(integration', trigcnt_daq)
        /\ (ncmd' = ncmd /\ ~Fire_DAQStopS) => reply' = reply
        /\ daq.streams' <= acc'
        /\ (Size(timer1') = 0 /\ pc' \notin {"rm1", "rm2"})
             => daq.streams' = acc' ]_vars
\* both triggers were accepted and each acquisition has streamed its line
C13_Witness ==
    /\ variant = "PHS" /\ acc = MaxTrig /\ daq.streams = MaxTrig
    /\ Size(timer1) = 0 /\ lastTrig = "accepted"

(***************************************************************************)
(* C14  PhotoSCPI (streaming): the reply to 'MEASurement:DATa?' has the    *)
(* form "DAT: <value>, TRIG: <count>", its line prefix is "DAT:", whereas  *)
(* a pushed line has the prefix "STREAM"; the prefix alone tells a reply   *)
(* from a push.  Stated for a reply given once a result exists.            *)
(***************************************************************************)
C14_ReplyPrefixDAT ==
    [][ (Cmd_getData /\ daq.streams > 0)
          => /\ reply'[1].prefix = "DAT: "
             /\ reply'[1].prefix # StreamMsg(integration, trigcnt_dat).prefix
      ]_vars

\* the DAQStop of the latest accepted trigger has run
StopDone == daq.last = "stop" /\ daq.msgTrig = acc /\ acc > 0
C16_SamplerCancelled ==
    [][ variant = "PHT" =>
        /\ Fire_DAQRead => ADCcontinue
        /\ ~ADCcontinue' => Pending(timer1', "DAQRead") = {}
        /\ (ISR_PhotoT /\ StopDone /\ Pending(timer1, "DAQStart") = {}
              /\ pc \notin {"rm1", "rm2"})
             => lastTrig' = "accepted" ]_vars

(***************************************************************************)
(* C17  Out-of-range channel index (pulse generator, LEDs): a get or set   *)
(* command whose channel suffix is missing or lies outside 0..N-1 changes  *)
(* no element of the schedule table nor any other state, and prints no     *)
(* response line.                                                          *)
(***************************************************************************)
C17_BadSuffixNoOp ==
    [][ ( \/ \E w \in SuffixesPG \ (0..(NCHAN-1)) :
                \/ GetDelay(w)
                \/ \E val \in DelayVals : SetDelay(w, << val >>)
          \/ \E w \in SuffixesLED \ (0..(NLED-1)) :
                \/ GetBrightness(w) \/ GetDurationLED(w)
                \/ \E val \in BrightVals : SetBrightness(w, << val >>)
                \/ \E val \in DurationVals, first \in {"lo", "hi"} :
                      SetDurationLED(w, << val >>, first) )
        => UNCHANGED << delays, repRate, durations, brights, timer1, timer2,
                        t0, out, reply, wr >> ]_vars

(***************************************************************************)
(* C18  A set command that comes without a value (DELay:CHannelN,          *)
(* DURation:LEDN, BRIGhtness:LEDN, SHUtter:DURation, MEASurement:DURation) *)
(* leaves the setting it targets and all other state unchanged, in every   *)
(* sketch.                                                                 *)
(***************************************************************************)
C18_BareSetNoOp ==
    [][ Cmd_setBare
        => UNCHANGED << delays, repRate, durations, brights, duration1,
                        trigcnt, debugmode, timer1, timer2, t0, out, reply,
                        wr >> ]_vars

(***************************************************************************)
(* C19  LED brightness range: 0 <= brights[i] <= 255 for every LED in      *)
(* every reachable state, whatever integer is sent with                    *)
(* 'BRIGhtness:LEDN VAL': a value below 0 stores 0, a value above 255      *)
(* stores 255, any other value stores itself.                              *)
(***************************************************************************)
C19_BrightnessClamped ==
    [][ /\ variant = "LED" => \A i \in 0..(NLED-1) : brights[i]' \in 0..255
        /\ \A i \in 0..(NLED-1), val \in BrightVals :
             SetBrightness(i, << val >>)
               => brights[i]' = Constrain(val, 0, 255) ]_vars

(***************************************************************************)
(* C20  The schedule table is read at schedule-build time only.  A set     *)
(* command processed after a trigger was accepted changes nothing of the   *)
(* cycle in flight: no deadline in the timer, no output, and an LED that   *)
(* is on is driven at the brightness the table held when the trigger was   *)
(* accepted; the photodiode result uses the duration read at that time.    *)
(***************************************************************************)
C20_TableReadAtBuildOnly ==
    [][ /\ ncmd' # ncmd => (timer1' = timer1 /\ out' = out)
        /\ variant = "LED" =>
             \A p \in PinsLED :
               (highs[p]' = 1 /\ lows[p]' = 0) => out[p]' = bsnap[p]'
        /\ (variant = "PHS" /\ Fire_DAQStopS) => duration_daq = daq.dur
      ]_vars

(***************************************************************************)
(* Settable tables and the measurement reply                               *)
(***************************************************************************)
\* C21: channel independence: a set command for channel N (a delay of the
\* pulse generator, a brightness or a duration of the LED flasher) changes
\* only entry N of the table it addresses; the other entries, the other
\* table, t0 and the pending timer entries are as they were.  The second
\* half of a duration store is part of the command.
C21_ChannelIndependence ==
    [][/\ \A n \in 0..(NCHAN-1), val \in DelayVals :
            SetDelay(n, << val >>)
              => /\ \A j \in 0..(NCHAN-1) : j # n => delays'[j] = delays[j]
                 /\ UNCHANGED << t0, timer1, timer2 >>
       /\ \A n \in 0..(NLED-1), val \in BrightVals :
            SetBrightness(n, << val >>)
              => /\ \A j \in 0..(NLED-1) : j # n => brights'[j] = brights[j]
                 /\ UNCHANGED << durations, t0, timer1 >>
       /\ \A n \in 0..(NLED-1), val \in DurationVals, first \in {"lo", "hi"} :
            SetDurationLED(n, << val >>, first)
              => /\ \A j \in 0..(NLED-1) : j # n
                                             => durations'[j] = durations[j]
                 /\ UNCHANGED << brights, t0, timer1 >>
       /\ (StoreRest /\ wr.var = "durations")
              => /\ \A j \in 0..(NLED-1) : j # wr.ch
                                             => durations'[j] = durations[j]
                 /\ UNCHANGED << brights, t0, timer1 >>]_vars
\* a delay of channel 0 set while the cycle built from the old table is
\* pending
C21_Witness ==
    /\ variant = "PG" /\ acc >= 1 /\ Size(timer1) > 0
    /\ delays[0] # dsnap[chanPins[0]]
    /\ \A j \in 1..(NCHAN-1) : delays[j] = dsnap[chanPins[j]]

\* C22: idempotent read: the measurement queries answered since the last
\* DAQStop ('MEASurement:DATa?' in continuous mode, 'MEASurement:VALue?' in
\* timed mode) all returned the same value, whatever triggers, samples and
\* other commands came between them.  daq.read lists those answers.
C22_IdempotentRead ==
    variant \in {"PHS", "PHT"}
      => \A i, j \in 1..Len(daq.read) : daq.read[i] = daq.read[j]
\* two queries answered after one acquisition has ended and while the next
\* one is accumulating
C22_Witness ==
    /\ variant \in {"PHS", "PHT"}
    /\ Len(daq.read) = 2 /\ daq.last = "start" /\ daq.msgTrig >= 1

(***************************************************************************)
(* The timer under load                                                    *)
(***************************************************************************)
\* C23: timer capacity: timer1 never holds more tasks than it has slots (10
\* in the pulse generator, 16 in the LED flasher, 2 in the shutter, 3 in
\* the photodiode sketches) and no at/in/every call meets a full timer:
\* an accepted trigger adds every task of its schedule, and each callback
\* that schedules a follow-up (TTLStart its TTLStop, the timed DAQStart its
\* DAQRead) adds it.
C23_NoTaskDropped ==
    [][/\ Size(timer1) <= Capacity(variant)
       /\ acc' # acc
            => Size(timer1') = Size(timer1)
                 + (CASE variant = "PG" -> NCHAN + 1
                      [] variant = "LED" -> 2 * NLED [] OTHER -> 2)
       /\ (Fire_TTLStart \/ Fire_DAQStartT)
            => Size(timer1') = Size(timer1) + 1]_vars
\* every slot of the pulse generator's timer in use
C23_Witness == variant = "PG" /\ Size(timer1) = CapPG

\* C24: stable order: the callback tick() is about to run belongs to the
\* due task with the earliest deadline, and among due tasks of one deadline
\* to the one enqueued first; the fall events the pulse generator enqueues
\* into freed slots are included.  A due task is the later by what the
\* clock has run past its deadline.
C24_StableOrder ==
    (pc = "tick1" /\ idx < Capacity(variant)
       /\ Due(timer1[idx], Micros(clock)))
      => \A j \in DOMAIN timer1 :
           (j # idx /\ Due(timer1[j], Micros(clock)))
             => LET over(s) == USub(Micros(clock), timer1[s].start)
                                 - timer1[s].expires
                IN  \/ over(j) < over(idx)
                    \/ /\ over(j) = over(idx)
                       /\ \/ enq.at[idx] < enq.at[j]
                          \/ enq.at[idx] = enq.at[j] /\ idx < j

\* C25: interrupt safety (LED flasher, shutter, photodiode): wherever the
\* trigger interrupt lands in the run loop, inside tick() included, a task
\* that is pending is changed by nothing but its own firing and removal:
\* the tasks an accepted trigger scheduled keep their deadline and argument
\* until tick() runs them.
C25_InterruptSafe ==
    [][variant # "PG"
         => \A s \in DOMAIN timer1 :
              (timer1[s].handler # NULL /\ timer1'[s] # timer1[s])
                => (s = idx /\ pc \in {"tick1", "rm1"})]_vars

\* C26: untorn reads: the duration the interrupt puts into a schedule is a
\* value the setting has held before or after a set command, never a
\* mixture of two: it is the setting of setup() or a value a command sent.
\* dsnap and daq.dur hold what the last accepted trigger read.
C26_UntornReads ==
    acc >= 1
      => /\ variant = "SHUT" => dsnap[SERVOPIN] \in {500000} \cup DurationVals
         /\ variant \in {"PHS", "PHT"} => daq.dur \in {400000} \cup DurationVals
         /\ variant = "LED"
              => \A p \in PinsLED :
                   dsnap[p] \in {200000, 500000, 150000, 400000, 350000, 100000}
                                  \cup DurationVals

C28_WindowCount ==
    [][Fire_DAQStopS
         => ncounts_daq' = IF daq.win < 0 THEN 0 ELSE daq.win]_vars

\* C29: DAQStop of the continuous sketch never divides by a sample count
\* of zero, with debug mode off or on: when the debug lines are printed
\* (dt = duration_daq / ncounts_daq) the count is not zero.
C29_NoDivideByZero ==
    [][(Fire_DAQStopS /\ debugmode) => ncounts # 0]_vars

(***************************************************************************)
(* The repetition-rate timer                                               *)
(***************************************************************************)
\* C30: pulse generator: after setup and after any sequence of REPrate
\* commands timer2 holds exactly one periodic trigStart task whose period
\* is round(1000 / repRate) ms, repRate being the rate set last.
C30_OnePeriodicTask ==
    variant = "PG"
      => /\ Size(timer2) = 1
         /\ timer2[0].handler = "trigStart" /\ timer2[0].repeat
         /\ timer2[0].expires = RepTime(repRate)

\* C31: trigger liveness of the pulse generator: with every rate set
\* positive the internal trigger keeps firing, whatever REPrate commands
\* arrive and whenever: trigStart is called as often as the model follows
\* it (MaxTrig times).
C31_TriggerRecurs == <>(ntrig = MaxTrig)

====
